---------------------------- MODULE Spec2Model ----------------------------
(***************************************************************************)
(* QuestLog (src/app.py): a Streamlit to-do list with XP, levels, streaks  *)
(* and a boss battle.  The session state (tasks, boss_xp, active_boss) is  *)
(* mutated by script runs of main(); every user interaction starts one run *)
(* and st.rerun() starts a further run without user input.                 *)
(***************************************************************************)
EXTENDS Integers, Sequences, FiniteSets, TLC

VARIABLES
    tasks,        \* st.session_state.tasks: the rows of the DataFrame, in order
    boss_xp,      \* st.session_state.boss_xp
    active_boss,  \* st.session_state.active_boss: None or a boss dict
    today,        \* date.today(), as a day number (0: the day the session began)
    rerun,        \* TRUE while a script run without user input is due
    hud,          \* what the last render_hud displayed (NoHud before any)
    dmg,          \* the deal_damage call of the last script run (NoCall if none)
    msg,          \* the load report of the last script run
    loot,         \* TRUE when the last run rendered the "Collect Loot" button
    stage         \* which operation produced the current state

vars == <<tasks, boss_xp, active_boss, today, rerun, hud, dmg, msg, loot, stage>>

-----------------------------------------------------------------------------
(* Bounds of the model *)

MaxTasks == 2      \* rows of the task table in a session
MaxDay == 1        \* the date inputs offer the day numbers 0..MaxDay
MaxDefeats == 1    \* bosses may be summoned while boss_xp < MaxDefeats * 500
FnMaxTasks == 3    \* rows of a task table handed to calculate_streak
FnMaxDay == 3      \* day numbers 0..FnMaxDay in those tables, and of today
FnMaxRun == 10     \* tables of 0..FnMaxRun completed tasks (10: level boundary)
FnMaxBossXp == 600 \* boss_xp 0..FnMaxBossXp handed to calculate_stats
FnMaxHp == 30      \* CurrentHP -5..FnMaxHp of a boss handed to deal_damage
FnMaxHits == 3     \* hit_count 0..FnMaxHits handed to deal_damage

-----------------------------------------------------------------------------
(* GameConfig *)

XP_PER_TASK == 50
BOSS_DMG_PER_TASK == 10
LEVEL_BASE_XP == 500
BOSS_BONUS_XP == 500

None == [none |-> TRUE]
NoHud == [nohud |-> TRUE]
NoCall == [nocall |-> TRUE]

\* time(9, 0) and time(10, 0), as seconds of the day
T0900 == 9 * 3600
T1000 == 10 * 3600

\* GameConfig.DEFAULT_TASK, with date.today() = d
DEFAULT_TASK(d) ==
    [Title |-> "Install Streamlit", Description |-> "pip install streamlit",
     Date |-> d, Start |-> T0900, End |-> T1000, Status |-> TRUE,
     Color |-> "#33B679"]

-----------------------------------------------------------------------------
(* Helpers over sequences and sets of integers *)

Range(s) == {s[i] : i \in 1..Len(s)}

SetMax(S) == CHOOSE x \in S : \A y \in S : y <= x

\* sorted(S, reverse=True)
RECURSIVE SortedDesc(_)
SortedDesc(S) ==
    IF S = {} THEN <<>>
    ELSE LET m == SetMax(S) IN <<m>> \o SortedDesc(S \ {m})

\* df['Status'].sum()
RECURSIVE StatusSum(_)
StatusSum(df) ==
    IF df = <<>> THEN 0
    ELSE (IF Head(df).Status THEN 1 ELSE 0) + StatusSum(Tail(df))

-----------------------------------------------------------------------------
(* GamificationService *)

\* calculate_stats counting every row instead of the completed ones
calculate_stats_all_rows(df, bxp) ==
    LET current_xp == (Len(df) * XP_PER_TASK) + bxp
    IN  [xp |-> current_xp,
         level |-> (current_xp \div LEVEL_BASE_XP) + 1,
         progress |-> [num |-> current_xp % LEVEL_BASE_XP, den |-> LEVEL_BASE_XP]]

\* calculate_stats with the level counted from 0
calculate_stats_level0(df, bxp) ==
    LET completed_count == IF df # <<>> THEN StatusSum(df) ELSE 0
        current_xp == (completed_count * XP_PER_TASK) + bxp
    IN  [xp |-> current_xp,
         level |-> current_xp \div LEVEL_BASE_XP,
         progress |-> [num |-> current_xp % LEVEL_BASE_XP, den |-> LEVEL_BASE_XP]]

\* calculate_stats leaving the boss bonus out
calculate_stats_no_bonus(df, bxp) ==
    LET completed_count == IF df # <<>> THEN StatusSum(df) ELSE 0
        current_xp == completed_count * XP_PER_TASK
    IN  [xp |-> current_xp,
         level |-> (current_xp \div LEVEL_BASE_XP) + 1,
         progress |-> [num |-> current_xp % LEVEL_BASE_XP, den |-> LEVEL_BASE_XP]]

\* progress is the fraction num / den
calculate_stats(df, bxp) ==
    LET completed_count == IF df # <<>> THEN StatusSum(df) ELSE 0
        current_xp == (completed_count * XP_PER_TASK) + bxp
    IN  [xp |-> current_xp,
         level |-> (current_xp \div LEVEL_BASE_XP) + 1,
         progress |-> [num |-> current_xp % LEVEL_BASE_XP, den |-> LEVEL_BASE_XP]]

\* the for loop of calculate_streak counting every earlier date, gap or not
RECURSIVE StreakWalkAnyGap(_, _, _, _)
StreakWalkAnyGap(dates, i, current_date, streak) ==
    IF i > Len(dates) THEN streak
    ELSE IF current_date - dates[i] >= 1
         THEN StreakWalkAnyGap(dates, i + 1, dates[i], streak + 1)
         ELSE streak

\* the for loop of calculate_streak, from index i on
RECURSIVE StreakWalk(_, _, _, _)
StreakWalk(dates, i, current_date, streak) ==
    IF i > Len(dates) THEN streak
    ELSE IF current_date - dates[i] = 1
         THEN StreakWalk(dates, i + 1, dates[i], streak + 1)
         ELSE streak

\* calculate_streak(df) without the test against date.today()
calculate_streak_no_today(df, td) ==
    IF df = <<>> THEN 0
    ELSE LET completed == SelectSeq(df, LAMBDA t : t.Status = TRUE)
         IN  IF completed = <<>> THEN 0
             ELSE LET dates == SortedDesc({t.Date : t \in Range(completed)})
                  IN  StreakWalk(dates, 2, dates[1], 1)

\* calculate_streak(df) with date.today() = td
calculate_streak(df, td) ==
    IF df = <<>> THEN 0
    ELSE LET completed == SelectSeq(df, LAMBDA t : t.Status = TRUE)
         IN  IF completed = <<>> THEN 0
             ELSE LET dates == SortedDesc({t.Date : t \in Range(completed)})
                  IN  IF td - dates[1] > 1 THEN 0
                      ELSE StreakWalk(dates, 2, dates[1], 1)

-----------------------------------------------------------------------------
(* BossManager *)

\* deal_damage adding the damage to CurrentHP
deal_damage_heals(boss, hit_count) ==
    LET damage == hit_count * BOSS_DMG_PER_TASK
    IN  <<[boss EXCEPT !.CurrentHP = @ + damage], damage>>

\* deal_damage clamping CurrentHP at 0
deal_damage_clamped(boss, hit_count) ==
    LET damage == hit_count * BOSS_DMG_PER_TASK
        hp == boss.CurrentHP - damage
    IN  <<[boss EXCEPT !.CurrentHP = IF hp < 0 THEN 0 ELSE hp], damage>>

\* returns <<updated_boss, damage_dealt>>
deal_damage(boss, hit_count) ==
    LET damage == hit_count * BOSS_DMG_PER_TASK
    IN  <<[boss EXCEPT !.CurrentHP = @ - damage], damage>>

-----------------------------------------------------------------------------
(* Dates and times: datetime.date / datetime.time and their ISO-8601 text. *)
(* A date is a day number counted from Epoch; its text "YYYY-MM-DD" is the *)
(* record of its fields.  A time is a second of the day; its text          *)
(* "HH:MM:SS" is the record of its fields.                                 *)

Epoch == [y |-> 2024, m |-> 2, d |-> 28]

IsLeap(y) == (y % 4 = 0 /\ y % 100 # 0) \/ y % 400 = 0

DaysInMonth(y, m) ==
    IF m = 2 THEN (IF IsLeap(y) THEN 29 ELSE 28)
    ELSE IF m \in {4, 6, 9, 11} THEN 30 ELSE 31

NextDay(c) ==
    IF c.d < DaysInMonth(c.y, c.m) THEN [c EXCEPT !.d = @ + 1]
    ELSE IF c.m < 12 THEN [y |-> c.y, m |-> c.m + 1, d |-> 1]
    ELSE [y |-> c.y + 1, m |-> 1, d |-> 1]

\* the calendar fields of day number n
RECURSIVE FromDayNumber(_)
FromDayNumber(n) == IF n = 0 THEN Epoch ELSE NextDay(FromDayNumber(n - 1))

RECURSIVE DaysBeforeMonth(_, _)
DaysBeforeMonth(y, m) ==
    IF m = 1 THEN 0 ELSE DaysBeforeMonth(y, m - 1) + DaysInMonth(y, m - 1)

\* date.toordinal() of the calendar fields c
ToOrdinal(c) ==
    LET y1 == c.y - 1
    IN  y1 * 365 + (y1 \div 4) - (y1 \div 100) + (y1 \div 400)
          + DaysBeforeMonth(c.y, c.m) + c.d

\* date.isoformat()
date_isoformat(n) == FromDayNumber(n)

\* date.fromisoformat(s): ok is FALSE where Python raises
date_fromisoformat(s) ==
    IF s.m \in 1..12 /\ s.d >= 1 /\ s.d <= DaysInMonth(s.y, s.m)
    THEN [ok |-> TRUE, val |-> ToOrdinal(s) - ToOrdinal(Epoch)]
    ELSE [ok |-> FALSE, val |-> 0]

\* time.isoformat()
time_isoformat(t) ==
    [h |-> t \div 3600, m |-> (t % 3600) \div 60, s |-> t % 60]

\* time.fromisoformat(s): ok is FALSE where Python raises
time_fromisoformat(s) ==
    IF s.h \in 0..23 /\ s.m \in 0..59 /\ s.s \in 0..59
    THEN [ok |-> TRUE, val |-> s.h * 3600 + s.m * 60 + s.s]
    ELSE [ok |-> FALSE, val |-> 0]

-----------------------------------------------------------------------------
(* StateRepository *)

Session(t, x, b) == [tasks |-> t, boss_xp |-> x, active_boss |-> b]

\* one record of tasks.to_dict(orient="records"), through DateEncoder
EncodeRow(r) ==
    [Title |-> r.Title, Description |-> r.Description,
     Date |-> date_isoformat(r.Date), Start |-> time_isoformat(r.Start),
     End |-> time_isoformat(r.End), Status |-> r.Status, Color |-> r.Color]

\* export_data() writing null for active_boss
export_data_no_boss(s) ==
    [tasks |-> [i \in 1..Len(s.tasks) |-> EncodeRow(s.tasks[i])],
     boss_xp |-> s.boss_xp,
     active_boss |-> None]

\* export_data(): the JSON object that json.dumps writes
export_data(s) ==
    [tasks |-> [i \in 1..Len(s.tasks) |-> EncodeRow(s.tasks[i])],
     boss_xp |-> s.boss_xp,
     active_boss |-> s.active_boss]

\* json_data.get(k, default)
JsonGet(obj, k, default) == IF k \in DOMAIN obj THEN obj[k] ELSE default

\* whether the three .apply(fromisoformat) calls succeed on row r
RowParses(r) ==
    /\ {"Date", "Start", "End"} \subseteq DOMAIN r
    /\ date_fromisoformat(r.Date).ok
    /\ time_fromisoformat(r.Start).ok
    /\ time_fromisoformat(r.End).ok

DecodeRow(r) ==
    [k \in DOMAIN r |->
        IF k = "Date" THEN date_fromisoformat(r[k]).val
        ELSE IF k \in {"Start", "End"} THEN time_fromisoformat(r[k]).val
        ELSE r[k]]

\* load_data(json_data) keeping the session's value where a key is missing
load_data_keep_missing(s, json_data) ==
    IF json_data.kind # "dict"
    THEN [s |-> s, ok |-> FALSE, msg |-> "error"]
    ELSE LET obj == json_data.obj
             s1 == [s EXCEPT !.boss_xp = JsonGet(obj, "boss_xp", s.boss_xp),
                             !.active_boss = JsonGet(obj, "active_boss", s.active_boss)]
             rows == JsonGet(obj, "tasks", s.tasks)
         IN  IF "tasks" \in DOMAIN obj /\ rows # <<>>
             THEN IF \A i \in 1..Len(rows) : RowParses(rows[i])
                  THEN [s |-> [s1 EXCEPT !.tasks =
                                   [i \in 1..Len(rows) |-> DecodeRow(rows[i])]],
                        ok |-> TRUE, msg |-> "success"]
                  ELSE [s |-> s1, ok |-> FALSE, msg |-> "error"]
             ELSE [s |-> [s1 EXCEPT !.tasks = rows],
                   ok |-> TRUE, msg |-> "success"]

\* load_data(json_data) on session s.  json_data is [kind, obj]: kind "dict"
\* with the object, or another JSON value, on which .get raises.
\* Result: the session after the call, ok (st.rerun() was reached) and the report.
load_data(s, json_data) ==
    IF json_data.kind # "dict"
    THEN [s |-> s, ok |-> FALSE, msg |-> "error"]
    ELSE LET obj == json_data.obj
             s1 == [s EXCEPT !.boss_xp = JsonGet(obj, "boss_xp", 0),
                             !.active_boss = JsonGet(obj, "active_boss", None)]
             rows == JsonGet(obj, "tasks", <<>>)
         IN  IF rows # <<>>
             THEN IF \A i \in 1..Len(rows) : RowParses(rows[i])
                  THEN [s |-> [s1 EXCEPT !.tasks =
                                   [i \in 1..Len(rows) |-> DecodeRow(rows[i])]],
                        ok |-> TRUE, msg |-> "success"]
                  ELSE [s |-> s1, ok |-> FALSE, msg |-> "error"]
             ELSE [s |-> [s1 EXCEPT !.tasks = <<>>],
                   ok |-> TRUE, msg |-> "success"]

-----------------------------------------------------------------------------
(* UI and main: one script run of main() *)

\* Python truthiness of st.session_state.active_boss
Truthy(b) == b # None

\* render_boss_arena() testing CurrentHP < 0 for the defeat
render_boss_arena_strict(s) ==
    LET boss == s.active_boss
    IN  IF ~Truthy(boss)
        THEN [s |-> s, loot |-> FALSE, crash |-> FALSE]
        ELSE IF boss.MaxHP = 0
        THEN [s |-> s, loot |-> FALSE, crash |-> TRUE]
        ELSE IF boss.CurrentHP < 0
        THEN [s |-> [s EXCEPT !.boss_xp = @ + BOSS_BONUS_XP,
                              !.active_boss = None],
              loot |-> TRUE, crash |-> FALSE]
        ELSE [s |-> s, loot |-> FALSE, crash |-> FALSE]

\* render_boss_arena(): the session after it, whether "Collect Loot" was
\* rendered, and whether the run died in it (ZeroDivisionError at hp_pct)
render_boss_arena(s) ==
    LET boss == s.active_boss
    IN  IF ~Truthy(boss)
        THEN [s |-> s, loot |-> FALSE, crash |-> FALSE]
        ELSE IF boss.MaxHP = 0
        THEN [s |-> s, loot |-> FALSE, crash |-> TRUE]
        ELSE IF boss.CurrentHP <= 0
        THEN [s |-> [s EXCEPT !.boss_xp = @ + BOSS_BONUS_XP,
                              !.active_boss = None],
              loot |-> TRUE, crash |-> FALSE]
        ELSE [s |-> s, loot |-> FALSE, crash |-> FALSE]

\* lines 272-287 handing new_completed, not the difference, to deal_damage
ApplyEditNewCount(s, new_df) ==
    IF new_df # s.tasks
    THEN LET old_completed == StatusSum(s.tasks)
             new_completed == StatusSum(new_df)
             s1 == [s EXCEPT !.tasks = new_df]
         IN  IF new_completed > old_completed /\ Truthy(s1.active_boss)
             THEN LET r == deal_damage(s1.active_boss, new_completed)
                  IN  [s |-> [s1 EXCEPT !.active_boss = r[1]],
                       dmg |-> [hit_count |-> new_completed, damage |-> r[2]],
                       rerun |-> TRUE]
             ELSE [s |-> s1, dmg |-> NoCall, rerun |-> TRUE]
    ELSE [s |-> s, dmg |-> NoCall, rerun |-> FALSE]

\* lines 272-287 without the test new_completed > old_completed
ApplyEditNoGuard(s, new_df) ==
    IF new_df # s.tasks
    THEN LET old_completed == StatusSum(s.tasks)
             new_completed == StatusSum(new_df)
             s1 == [s EXCEPT !.tasks = new_df]
         IN  IF Truthy(s1.active_boss)
             THEN LET diff == new_completed - old_completed
                      r == deal_damage(s1.active_boss, diff)
                  IN  [s |-> [s1 EXCEPT !.active_boss = r[1]],
                       dmg |-> [hit_count |-> diff, damage |-> r[2]],
                       rerun |-> TRUE]
             ELSE [s |-> s1, dmg |-> NoCall, rerun |-> TRUE]
    ELSE [s |-> s, dmg |-> NoCall, rerun |-> FALSE]

\* main() lines 272-287: the editor returned new_df for session s
ApplyEdit(s, new_df) ==
    IF new_df # s.tasks
    THEN LET old_completed == StatusSum(s.tasks)
             new_completed == StatusSum(new_df)
             s1 == [s EXCEPT !.tasks = new_df]
         IN  IF new_completed > old_completed /\ Truthy(s1.active_boss)
             THEN LET diff == new_completed - old_completed
                      r == deal_damage(s1.active_boss, diff)
                  IN  [s |-> [s1 EXCEPT !.active_boss = r[1]],
                       dmg |-> [hit_count |-> diff, damage |-> r[2]],
                       rerun |-> TRUE]
             ELSE [s |-> s1, dmg |-> NoCall, rerun |-> TRUE]
    ELSE [s |-> s, dmg |-> NoCall, rerun |-> FALSE]

\* what render_hud is given, main() lines 264-267
HudOf(s, td) ==
    [stats |-> calculate_stats(s.tasks, s.boss_xp),
     streak |-> calculate_streak(s.tasks, td)]

\* main() from line 264 on, with the session s the sidebar left;
\* edited is the table the data editor returns
AfterSidebar(s, td, edited) ==
    LET arena == render_boss_arena(s)
        ed == ApplyEdit(arena.s, edited)
    IN  IF arena.crash
        THEN [s |-> s, hud |-> HudOf(s, td), dmg |-> NoCall,
              loot |-> FALSE, rerun |-> FALSE]
        ELSE [s |-> ed.s, hud |-> HudOf(s, td), dmg |-> ed.dmg,
              loot |-> arena.loot /\ ~ed.rerun, rerun |-> ed.rerun]

-----------------------------------------------------------------------------
(* The inputs of the widgets *)

Dates == 0..MaxDay

\* the rows the "New Quest" form can add: Status is False
NewQuestRows ==
    {[Title |-> "Quest", Description |-> "", Date |-> d, Start |-> T0900,
      End |-> T1000, Status |-> FALSE, Color |-> "#3788d8"] : d \in Dates}

\* the summon form: the HP slider goes from 50 to 500
HpChoices == {50}
SummonedBoss(hp) ==
    [Name |-> "Entropy Dragon", MaxHP |-> hp, CurrentHP |-> hp, Image |-> "dragon"]

\* the data editor (num_rows="dynamic"): each row is kept, has its Status
\* toggled or is deleted in one edit (a paste or a multi-row delete changes
\* several rows at once); or one row's Date is changed; or one row is appended
RowOps == {"keep", "toggle", "delete"}

RECURSIVE ApplyRowOps(_, _, _)
ApplyRowOps(df, ops, i) ==
    IF i > Len(df) THEN <<>>
    ELSE LET rest == ApplyRowOps(df, ops, i + 1)
         IN  CASE ops[i] = "keep" -> <<df[i]>> \o rest
               [] ops[i] = "toggle" ->
                    <<[df[i] EXCEPT !.Status = ~@]>> \o rest
               [] OTHER -> rest

EditResults(df) ==
    {ApplyRowOps(df, ops, 1) : ops \in [1..Len(df) -> RowOps]}
    \cup {[df EXCEPT ![i].Date = d] : i \in 1..Len(df), d \in Dates}
    \cup (IF Len(df) < MaxTasks
          THEN {Append(df, [r EXCEPT !.Status = st]) :
                    r \in NewQuestRows, st \in BOOLEAN}
          ELSE {})

\* the uploaded save files
BadDateText == [y |-> 2024, m |-> 2, d |-> 30]
BadTimeText == [h |-> 25, m |-> 0, s |-> 0]

GoodJsonRow == EncodeRow(DEFAULT_TASK(0))

RowWithout(r, key) == [k \in DOMAIN r \ {key} |-> r[k]]

JsonTaskLists ==
    {<<>>,
     <<GoodJsonRow>>,
     <<GoodJsonRow, [GoodJsonRow EXCEPT !.Date = BadDateText]>>,
     <<[GoodJsonRow EXCEPT !.End = BadTimeText]>>,
     <<RowWithout(GoodJsonRow, "Date")>>}

ActiveBoss(max_hp, hp) ==
    [Name |-> "Entropy Dragon", MaxHP |-> max_hp, CurrentHP |-> hp, Image |-> "dragon"]

\* a key with value v, or no key (v is then unused)
Key(v) == [has |-> TRUE, v |-> v]
NoKey(unused) == [has |-> FALSE, v |-> unused]

\* the boss_xp and active_boss entries of the save files
JsonProgress ==
    {<<NoKey(0), NoKey(None)>>,
     <<Key(500), Key(ActiveBoss(50, 20))>>,
     <<Key(-500), Key(ActiveBoss(50, 0))>>,
     <<NoKey(0), Key(ActiveBoss(0, 0))>>}

\* a JSON object with any of the three keys absent
JsonObject(t, x, b) ==
    LET full == [tasks |-> t.v, boss_xp |-> x.v, active_boss |-> b.v]
        has == [tasks |-> t.has, boss_xp |-> x.has, active_boss |-> b.has]
    IN  [k \in {k \in DOMAIN full : has[k]} |-> full[k]]

\* the file that "Save Game" offers in the run that renders session s
SavedGame(s) == [kind |-> "dict", obj |-> export_data(s)]

\* the save of the first session right after a boss was summoned in it
FreshBossSave == SavedGame(Session(<<DEFAULT_TASK(0)>>, 0, SummonedBoss(50)))

JsonInputs ==
    {[kind |-> "dict", obj |-> JsonObject(t, p[1], p[2])] :
        t \in {Key(l) : l \in JsonTaskLists} \cup {NoKey(<<>>)},
        p \in JsonProgress}
    \cup {[kind |-> "list", obj |-> <<>>], FreshBossSave}

-----------------------------------------------------------------------------
(* The state machine *)

Cur == Session(tasks, boss_xp, active_boss)

\* StateRepository.initialize_session(): the first run is due
Init ==
    /\ today = 0
    /\ tasks = <<DEFAULT_TASK(today)>>
    /\ boss_xp = 0
    /\ active_boss = None
    /\ rerun = TRUE
    /\ hud = NoHud
    /\ dmg = NoCall
    /\ msg = "none"
    /\ loot = FALSE
    /\ stage = "init"

\* the end of a script run that got as far as the HUD
Finish(r, report, name) ==
    /\ tasks' = r.s.tasks
    /\ boss_xp' = r.s.boss_xp
    /\ active_boss' = r.s.active_boss
    /\ rerun' = r.rerun
    /\ hud' = r.hud
    /\ dmg' = r.dmg
    /\ loot' = r.loot
    /\ msg' = report
    /\ stage' = name
    /\ UNCHANGED today

\* the end of a script run that st.rerun() stopped in the sidebar
StopInSidebar(s, report, name) ==
    /\ tasks' = s.tasks
    /\ boss_xp' = s.boss_xp
    /\ active_boss' = s.active_boss
    /\ rerun' = TRUE
    /\ dmg' = NoCall
    /\ loot' = FALSE
    /\ msg' = report
    /\ stage' = name
    /\ UNCHANGED <<today, hud>>

\* a run of main() without user input: the first one, or after st.rerun()
Rerun ==
    /\ rerun
    /\ Finish(AfterSidebar(Cur, today, tasks), "none", "rerun")

\* "Restore" pressed with an uploaded file
Restore(json_data) ==
    /\ ~rerun
    /\ LET r == load_data(Cur, json_data)
       IN  IF r.ok
           THEN StopInSidebar(r.s, r.msg, "restore")
           ELSE Finish(AfterSidebar(r.s, today, r.s.tasks), r.msg, "restore")

\* "Add" pressed in the New Quest form
AddTask(new_row) ==
    /\ ~rerun
    /\ Len(tasks) < MaxTasks
    /\ LET s1 == [Cur EXCEPT !.tasks = Append(@, new_row)]
       IN  Finish(AfterSidebar(s1, today, s1.tasks), "none", "add")

\* "Summon" with the form rendered whether or not a boss is active
SummonAnytime(hp) ==
    /\ ~rerun
    /\ boss_xp < MaxDefeats * BOSS_BONUS_XP
    /\ StopInSidebar([Cur EXCEPT !.active_boss = SummonedBoss(hp)], "none", "summon")

\* "Summon" pressed; the form is rendered only without an active boss
Summon(hp) ==
    /\ ~rerun
    /\ ~Truthy(active_boss)
    /\ boss_xp < MaxDefeats * BOSS_BONUS_XP
    /\ StopInSidebar([Cur EXCEPT !.active_boss = SummonedBoss(hp)], "none", "summon")

\* "Flee Battle" converting the boss into the bonus, as a defeat does
FleeWithBonus ==
    /\ ~rerun
    /\ Truthy(active_boss)
    /\ StopInSidebar([Cur EXCEPT !.active_boss = None,
                                 !.boss_xp = @ + BOSS_BONUS_XP], "none", "flee")

\* "Flee Battle" pressed; the button is rendered only with an active boss
Flee ==
    /\ ~rerun
    /\ Truthy(active_boss)
    /\ StopInSidebar([Cur EXCEPT !.active_boss = None], "none", "flee")

\* an edit made in the data editor
EditTasks(new_df) ==
    /\ ~rerun
    /\ ~render_boss_arena(Cur).crash
    /\ Finish(AfterSidebar(Cur, today, new_df), "none", "edit")

\* "Collect Loot" pressed
CollectLoot ==
    /\ ~rerun
    /\ loot
    /\ Finish(AfterSidebar(Cur, today, tasks), "none", "loot")

Next ==
    \/ Rerun
    \/ \E j \in JsonInputs \cup {SavedGame(Cur)} : Restore(j)
    \/ \E r \in NewQuestRows : AddTask(r)
    \/ \E hp \in HpChoices : Summon(hp)
    \/ Flee
    \/ \E df \in EditResults(tasks) : EditTasks(df)
    \/ CollectLoot

Spec == Init /\ [][Next]_vars

\* a session in which no save file is loaded
NextSession ==
    \/ Rerun
    \/ \E r \in NewQuestRows : AddTask(r)
    \/ \E hp \in HpChoices : Summon(hp)
    \/ Flee
    \/ \E df \in EditResults(tasks) : EditTasks(df)
    \/ CollectLoot

SpecSession == Init /\ [][NextSession]_vars

-----------------------------------------------------------------------------
(* The service functions on their own: GamificationService and BossManager *)
(* applied once to inputs drawn from bounded sets, as test_app.py does.    *)

FnDates == 0..FnMaxDay

FnRow(d, st) == [DEFAULT_TASK(d) EXCEPT !.Status = st]

\* every table of up to FnMaxTasks rows
FnTables ==
    UNION {[1..n -> {FnRow(d, st) : d \in FnDates, st \in BOOLEAN}] :
              n \in 0..FnMaxTasks}

\* k completed rows followed by j rows not completed
FnRuns ==
    {[i \in 1..(k + j) |-> FnRow(0, i <= k)] : k \in 0..FnMaxRun, j \in 0..1}

FnBosses == {ActiveBoss(50, hp) : hp \in (-5)..FnMaxHp}

InitFn ==
    /\ \/ /\ tasks \in FnTables
          /\ today \in FnDates
          /\ boss_xp = 0
          /\ active_boss = None
       \/ /\ tasks \in FnRuns
          /\ today = 0
          /\ boss_xp \in 0..FnMaxBossXp
          /\ active_boss = None
       \/ /\ tasks = <<>>
          /\ today = 0
          /\ boss_xp = 0
          /\ active_boss \in FnBosses
    /\ rerun = FALSE
    /\ hud = NoHud
    /\ dmg = NoCall
    /\ msg = "none"
    /\ loot = FALSE
    /\ stage = "init"

\* calculate_stats and calculate_streak applied to the session, for the first
\* time or again after the day changed
Query ==
    /\ stage \in {"init", "midnight"}
    /\ hud' = HudOf(Cur, today)
    /\ stage' = "query"
    /\ UNCHANGED <<tasks, boss_xp, active_boss, today, rerun, dmg, msg, loot>>

\* deal_damage applied to the boss
Hit(hit_count) ==
    /\ stage = "init"
    /\ Truthy(active_boss)
    /\ LET r == deal_damage(active_boss, hit_count)
       IN  /\ active_boss' = r[1]
           /\ dmg' = [hit_count |-> hit_count, damage |-> r[2]]
    /\ stage' = "hit"
    /\ UNCHANGED <<tasks, boss_xp, today, rerun, hud, msg, loot>>

\* the calendar day changes between two calls: date.today() is one more
Midnight ==
    /\ stage = "query"
    /\ today < FnMaxDay
    /\ today' = today + 1
    /\ stage' = "midnight"
    /\ UNCHANGED <<tasks, boss_xp, active_boss, rerun, hud, dmg, msg, loot>>

NextFn ==
    \/ Query
    \/ Midnight
    \/ \E h \in 0..FnMaxHits : Hit(h)

SpecFn == InitFn /\ [][NextFn]_vars

-----------------------------------------------------------------------------
(* Properties *)

\* number of rows with Status true
Completed(df) == Cardinality({i \in 1..Len(df) : df[i].Status})

\* the distinct dates of the completed rows
CompletedDates(df) == {df[i].Date : i \in {j \in 1..Len(df) : df[j].Status}}

IsLatest(D, m) == m \in D /\ \A y \in D : y <= m

\* m, m-1, ..., m-n+1 are in D and m-n is not
RunFrom(D, m, n) == (\A k \in 0..(n - 1) : m - k \in D) /\ (m - n \notin D)

\* a step that is a run of main() on an edit that changed the table, with a
\* boss active when the run began
EditStepWithBoss ==
    /\ stage' = "edit"
    /\ tasks' # tasks
    /\ Truthy(active_boss)

\* rows that went from not completed to completed, matched by position
NewlyCompleted(before, after) ==
    Cardinality({i \in 1..Len(before) : ~before[i].Status /\ after[i].Status})

\* rows that went from completed to not completed, matched by position
UnCompleted(before, after) ==
    Cardinality({i \in 1..Len(before) : before[i].Status /\ ~after[i].Status})

XpNow == calculate_stats(tasks, boss_xp).xp

\* C1: a load that reports a failure leaves tasks, boss_xp and active_boss
\* exactly as they were before the load, whatever the rejected file carried.
C1_FailedLoadChangesNothing ==
    [][stage' = "restore" /\ msg' = "error"
         => tasks' = tasks /\ boss_xp' = boss_xp /\ active_boss' = active_boss]_vars

C3_StreakIsRunFromLatest ==
    stage = "query" =>
        LET D == CompletedDates(tasks)
        IN  IF D = {} THEN hud.streak = 0
            ELSE \A m \in D : IsLatest(D, m) =>
                    IF today - m > 1 THEN hud.streak = 0
                    ELSE hud.streak >= 1 /\ RunFrom(D, m, hud.streak)

\* a run of two days, then a gap, then a further completed date
C3_Witness ==
    /\ stage = "query"
    /\ hud.streak = 2
    /\ Cardinality(CompletedDates(tasks)) = 3

\* C4: a streak n > 0 counts n consecutive days with a completed task, the
\* latest of them today or yesterday.
C4_StreakEndsTodayOrYesterday ==
    (stage = "query" /\ hud.streak > 0) =>
        \E e \in {today, today - 1} :
            \A k \in 0..(hud.streak - 1) : e - k \in CompletedDates(tasks)

\* C5: deal_damage returns damage = hit_count * 10 and takes exactly that from
\* CurrentHP without clamping; hit_count = 0 changes nothing; Name, MaxHP and
\* Image are kept.
C5_DealDamage ==
    [][stage' = "hit" =>
         /\ dmg'.damage = dmg'.hit_count * 10
         /\ active_boss'.CurrentHP = active_boss.CurrentHP - dmg'.hit_count * 10
         /\ (dmg'.hit_count = 0 => active_boss'.CurrentHP = active_boss.CurrentHP)
         /\ active_boss'.Name = active_boss.Name
         /\ active_boss'.MaxHP = active_boss.MaxHP
         /\ active_boss'.Image = active_boss.Image
         /\ DOMAIN active_boss' = DOMAIN active_boss]_vars

C5_Witness ==
    /\ stage = "hit"
    /\ dmg.hit_count > 0
    /\ active_boss.CurrentHP < 0

\* C6: calculate_stats returns xp = completed * 50 + boss_xp,
\* level = floor(xp / 500) + 1 and progress = (xp mod 500) / 500; ten completed
\* tasks and boss_xp = 0 give xp 500, level 2, progress 0.
C6_Stats ==
    stage = "query" =>
        LET x == Completed(tasks) * 50 + boss_xp
        IN  /\ hud.stats.xp = x
            /\ hud.stats.level = (x \div 500) + 1
            /\ hud.stats.progress = [num |-> x % 500, den |-> 500]
            /\ (Completed(tasks) = 10 /\ boss_xp = 0)
                 => (/\ hud.stats.xp = 500
                     /\ hud.stats.level = 2
                     /\ hud.stats.progress.num = 0)

C6_Witness ==
    /\ stage = "query"
    /\ Completed(tasks) = 10
    /\ Len(tasks) = 11
    /\ boss_xp = 0
    /\ hud.stats.level = 2

\* C7: for boss_xp >= 0 the level is at least 1, xp lies in
\* [(level-1)*500, level*500) and the progress fraction lies in [0, 1).
C7_LevelAndProgressRange ==
    (stage = "query" /\ boss_xp >= 0) =>
        /\ hud.stats.level >= 1
        /\ (hud.stats.level - 1) * 500 <= hud.stats.xp
        /\ hud.stats.xp < hud.stats.level * 500
        /\ hud.stats.progress.num \in 0..499
        /\ hud.stats.progress.num = hud.stats.xp - (hud.stats.level - 1) * 500
        /\ hud.stats.progress.den = 500

C7_Witness ==
    /\ stage = "query"
    /\ hud.stats.level = 2
    /\ hud.stats.progress.num = 499

\* C8: in a run whose edited table differs from the stored one, with a boss
\* active, deal_damage is called exactly when the completed count went up, with
\* hit_count the difference of the counts, and CurrentHP drops by 10 times it;
\* otherwise the boss is unchanged.
C8_DamageFromSnapshotPair ==
    [][EditStepWithBoss =>
         LET before == Completed(tasks)
             after == Completed(tasks')
         IN  /\ (dmg' # NoCall) <=> (after > before)
             /\ after > before =>
                  /\ dmg'.hit_count = after - before
                  /\ active_boss'.CurrentHP =
                         active_boss.CurrentHP - 10 * (after - before)
             /\ after <= before => active_boss' = active_boss]_vars

\* two tasks completed in one edit
C8_Witness ==
    /\ stage = "edit"
    /\ dmg # NoCall
    /\ dmg.hit_count = 2
    /\ Truthy(active_boss)

\* C9 as claimed: the damage dealt to an active boss is 10 times the number of
\* rows that went from not completed to completed in the cycle (rows matched by
\* position, in edits that keep the number of rows).
C9_DamageIsNewlyCompleted ==
    [][(EditStepWithBoss /\ Len(tasks') = Len(tasks)) =>
         active_boss'.CurrentHP =
             active_boss.CurrentHP - 10 * NewlyCompleted(tasks, tasks')]_vars

\* C9 as amended: the damage is 10 times the rise of the completed count, and
\* nothing when the count does not rise; it is 10 times the number of newly
\* completed rows when the edit keeps the rows and un-completes none.
C9_DamageIsNetRise ==
    [][EditStepWithBoss =>
         LET rise == Completed(tasks') - Completed(tasks)
             dealt == active_boss.CurrentHP - active_boss'.CurrentHP
         IN  /\ dealt = 10 * (IF rise > 0 THEN rise ELSE 0)
             /\ (Len(tasks') = Len(tasks) /\ UnCompleted(tasks, tasks') = 0)
                  => dealt = 10 * NewlyCompleted(tasks, tasks')]_vars

\* one row completed and another un-completed in the same edit: no damage
C9_Witness ==
    /\ stage = "edit"
    /\ rerun
    /\ dmg = NoCall
    /\ Truthy(active_boss)
    /\ Len(tasks) = 2
    /\ tasks[1].Status # tasks[2].Status
    /\ hud # NoHud
    /\ hud.stats.xp = XpNow
    /\ Completed(tasks) = 1

\* C10 as claimed: outside a load, xp never decreases from one state to the next.
C10_XpNeverDecreases ==
    [][stage' # "restore" =>
         calculate_stats(tasks', boss_xp').xp >= calculate_stats(tasks, boss_xp).xp]_vars

\* C10 as amended: outside a load, boss_xp never decreases, and xp changes by
\* 50 times the change of the completed count plus the change of boss_xp: it
\* decreases only when completed tasks are un-checked or deleted.
C10_XpFollowsCompletedCount ==
    [][stage' # "restore" =>
         LET xp0 == calculate_stats(tasks, boss_xp).xp
             xp1 == calculate_stats(tasks', boss_xp').xp
         IN  /\ boss_xp' >= boss_xp
             /\ xp1 - xp0 = 50 * (Completed(tasks') - Completed(tasks))
                              + (boss_xp' - boss_xp)
             /\ Completed(tasks') >= Completed(tasks) => xp1 >= xp0]_vars

\* a completed task was un-checked or deleted: the HUD of that run showed more
\* xp than the session now gives
C10_Witness ==
    /\ stage = "edit"
    /\ rerun
    /\ hud # NoHud
    /\ hud.stats.xp > XpNow

\* C11 as claimed: two calls of calculate_stats and calculate_streak with the
\* same task set and boss_xp return the same results, also when the second
\* call is made on a later calendar day.
C11_SameResultOnAnyDay ==
    [][(stage = "midnight" /\ stage' = "query") => hud' = hud]_vars

\* C11 as amended: calculate_stats depends on its arguments only;
\* calculate_streak also reads the current date: called again on a later day
\* with the same task set, it returns the same value while the latest
\* completed date is no more than one day before that day, and 0 after that.
C11_StreakDependsOnToday ==
    [][(stage = "midnight" /\ stage' = "query") =>
         /\ tasks' = tasks /\ boss_xp' = boss_xp
         /\ hud'.stats = hud.stats
         /\ hud'.streak =
               IF \E m \in CompletedDates(tasks) :
                      IsLatest(CompletedDates(tasks), m) /\ today' - m <= 1
               THEN hud.streak
               ELSE 0]_vars

\* the same table gave streak 2 on one day and 0 on the next
C11_Witness ==
    /\ stage = "query"
    /\ today = FnMaxDay
    /\ hud.streak = 0
    /\ calculate_streak(tasks, today - 1) = 2


WellFormedSaves ==
    {[kind |-> "dict", obj |-> JsonObject(t, x, b)] :
        t \in {NoKey(<<>>), Key(<<>>), Key(<<GoodJsonRow>>)},
        x \in {NoKey(0), Key(0), Key(500)},
        b \in {NoKey(None), Key(None), Key(ActiveBoss(50, 20))}}

\* C13: whatever the session holds, loading a well-formed save object succeeds
\* and sets boss_xp to 0 when the object has no boss_xp, active_boss to None
\* when it has no active_boss, and the task table to the empty one when it has
\* no tasks key or an empty tasks list; a key that is present gives its value.
C13_LoadDefaults ==
    \A j \in WellFormedSaves \cup {i \in JsonInputs : load_data(Cur, i).ok} :
        LET r == load_data(Cur, j)
            obj == j.obj
        IN  /\ r.ok
            /\ r.s.boss_xp = (IF "boss_xp" \in DOMAIN obj THEN obj.boss_xp ELSE 0)
            /\ r.s.active_boss =
                  (IF "active_boss" \in DOMAIN obj THEN obj.active_boss ELSE None)
            /\ ("tasks" \notin DOMAIN obj) => r.s.tasks = <<>>
            /\ ("tasks" \in DOMAIN obj /\ obj.tasks = <<>>) => r.s.tasks = <<>>

\* a load has just emptied a session that had 500 boss_xp, as the HUD of the
\* run before still shows
C13_Witness ==
    /\ stage = "restore"
    /\ msg = "success"
    /\ boss_xp = 0
    /\ active_boss = None
    /\ tasks = <<>>
    /\ hud # NoHud
    /\ hud.stats.xp >= 500


\* C14: in every state in which a run of main() can start, that is where the
\* sidebar calls export_data and where a user action begins to be processed,
\* the save that export_data writes has active_boss None or a boss with
\* CurrentHP > 0.
C14_NoDefeatedBossInSave ==
    LET save == export_data(Cur)
    IN  save.active_boss = None \/ save.active_boss.CurrentHP > 0


\* C15: the flee action is taken with a boss active, sets active_boss to None
\* and leaves boss_xp and the tasks unchanged; the run that follows it awards
\* no bonus either and leaves the session without a boss.
C15_FleeAwardsNothing ==
    [][/\ stage' = "flee" =>
            /\ Truthy(active_boss)
            /\ active_boss' = None
            /\ boss_xp' = boss_xp
            /\ tasks' = tasks
            /\ rerun'
       /\ stage = "flee" =>
            /\ stage' = "rerun"
            /\ active_boss' = None
            /\ boss_xp' = boss_xp
            /\ tasks' = tasks
            /\ ~loot']_vars

\* a boss was fled from with two tasks completed: no boss and no bonus
C15_Witness ==
    /\ stage = "flee"
    /\ rerun
    /\ active_boss = None
    /\ boss_xp = 0
    /\ Completed(tasks) = 2
    /\ hud.stats.xp = 100
    /\ ~loot


\* a boss at full health
IsFresh(b) == b.CurrentHP = b.MaxHP

\* what a summon step does: taken without a boss, it installs a boss with
\* CurrentHP = MaxHP = the chosen HP, within 50..500, and leaves boss_xp and
\* the tasks unchanged
SummonStepIsRight ==
    stage' = "summon" =>
        /\ active_boss = None
        /\ Truthy(active_boss')
        /\ IsFresh(active_boss')
        /\ active_boss'.MaxHP \in 50..500
        /\ boss_xp' = boss_xp
        /\ tasks' = tasks

\* C16 as claimed: summon is taken only without a boss and installs a
\* full-health boss of the chosen HP, leaving boss_xp and tasks unchanged; and
\* no step taken with a boss active ends with a different boss at full health.
C16_NoFreshBossOverActiveOne ==
    [][/\ SummonStepIsRight
       /\ (Truthy(active_boss) /\ Truthy(active_boss') /\ IsFresh(active_boss'))
            => active_boss' = active_boss]_vars

\* C16 as amended: the same, except for steps that load a save file; outside
\* a load a boss that stays active changes only by losing CurrentHP in an edit.
C16_NoFreshBossExceptByLoad ==
    [][/\ SummonStepIsRight
       /\ (stage' # "restore" /\ Truthy(active_boss) /\ Truthy(active_boss'))
            => \/ active_boss' = active_boss
               \/ /\ stage' = "edit"
                  /\ active_boss'.CurrentHP < active_boss.CurrentHP
                  /\ active_boss' = [active_boss EXCEPT
                                        !.CurrentHP = active_boss'.CurrentHP]]_vars

\* a boss was summoned into a session with two tasks
C16_Witness ==
    /\ stage = "summon"
    /\ rerun
    /\ active_boss = SummonedBoss(50)
    /\ Len(tasks) = 2
    /\ boss_xp = 0


\* C17: in every reachable state, loads included, boss_xp >= 0, and the level
\* that the HUD shows is at least 1.
C17_BossXpNonNegative ==
    /\ boss_xp >= 0
    /\ hud # NoHud => hud.stats.level >= 1


\* C18: when a run of main() has finished (it was not cut short by
\* st.rerun()), the xp and level that render_hud was given equal
\* calculate_stats of the session as that run left it; so the run that awards
\* the boss bonus shows it.
C18_HudNotStale ==
    (~rerun /\ hud # NoHud) =>
        /\ hud.stats.xp = calculate_stats(tasks, boss_xp).xp
        /\ hud.stats.level = calculate_stats(tasks, boss_xp).level


\* C19: in a session without a load, an active boss has MaxHP > 0 and
\* CurrentHP <= MaxHP, and while a boss stays active its MaxHP is kept and its
\* CurrentHP never increases.
C19_BossHealthBounds ==
    [][/\ Truthy(active_boss') =>
            /\ active_boss'.MaxHP > 0
            /\ active_boss'.CurrentHP <= active_boss'.MaxHP
       /\ (Truthy(active_boss) /\ Truthy(active_boss')) =>
            /\ active_boss'.MaxHP = active_boss.MaxHP
            /\ active_boss'.CurrentHP <= active_boss.CurrentHP]_vars

\* a completed task was un-checked or deleted with a damaged boss active: the
\* boss got nothing back
C19_Witness ==
    /\ stage = "edit"
    /\ dmg = NoCall
    /\ Truthy(active_boss)
    /\ active_boss.CurrentHP = active_boss.MaxHP - 20
    /\ hud # NoHud
    /\ hud.stats.xp = XpNow + 100

=============================================================================
